---- MODULE Spec2Model ----
(***************************************************************************)
(* SeleniumURLLoader (langchain/document_loaders/url_selenium.py).         *)
(*                                                                         *)
(* The loader is constructed from a URL list and a few options, and        *)
(* load() launches one browser session, walks the URL list, and turns the  *)
(* rendered source of each page into a Document.  The browser driver and   *)
(* the HTML partitioner are external libraries: every call made on them    *)
(* either returns or raises, chosen nondeterministically here.  Text is    *)
(* a sequence of one-character strings, so that lower() and join() are     *)
(* computed character by character.                                        *)
(*                                                                         *)
(* Environment assumptions: the Chrome()/Firefox() constructors and        *)
(* driver.quit() return; str(el) and Document(...) do not raise.           *)
(***************************************************************************)
EXTENDS Integers, Sequences, FiniteSets, TLC

VARIABLES
    seleniumInstalled,      \* `import selenium` succeeds in this interpreter
    unstructuredInstalled,  \* `import unstructured` succeeds
    pc,                     \* position of the caller / of load()
    self,                   \* the loader object's attributes
    driver,                 \* load()'s local `driver`
    i,                      \* 1-based position of the for loop in self.urls
    page_content,           \* load()'s local `page_content`
    elements,               \* load()'s local `elements`
    docs,                   \* load()'s local `docs`
    result,                 \* the list load() returned
    raised,                 \* the exception that left __init__ or load()
    logged,                 \* URLs the current invocation passed to logger.error
    loads,                  \* number of load() invocations so far
    launches,               \* sessions launched by the current invocation
    quits,                  \* driver.quit() calls of the current invocation
    live,                   \* browser processes launched and not yet quit
    navigated,              \* positions driver.get was issued for, in order
    failed,                 \* positions whose iteration raised
    produced                \* for each Document of docs, its position and page source

vars == <<seleniumInstalled, unstructuredInstalled, pc, self, driver, i,
          page_content, elements, docs, result, raised, logged, loads,
          launches, quits, live, navigated, failed, produced>>

-----------------------------------------------------------------------------
(* Bounds of the model. *)

MaxUrls == 3
MaxLoads == 1

-----------------------------------------------------------------------------
(* Values. *)

None == "None"

chrome == <<"c", "h", "r", "o", "m", "e">>
firefox == <<"f", "i", "r", "e", "f", "o", "x">>

\* Browser strings a caller may pass: exact, mixed case, and unsupported.
Browsers ==
    { chrome,
      <<"F", "i", "r", "e", "f", "o", "x">>,
      <<"s", "a", "f", "a", "r", "i">>,
      <<>> }

Urls == {"https://a.test", "https://bad.test", "https://b.test"}

UrlLists == UNION { [1..n -> Urls] : n \in 0..MaxUrls }

ExecutablePaths == {None, "/opt/driver"}

\* Rendered page sources the browser may hand back.
Pages == {"<html></html>", "<p>Hi</p>", "<h1>A</h1><p></p><p>b</p>", "<<<"}

UpperCase ==
    <<"A", "B", "C", "D", "E", "F", "G", "H", "I", "J", "K", "L", "M",
      "N", "O", "P", "Q", "R", "S", "T", "U", "V", "W", "X", "Y", "Z">>
LowerCase ==
    <<"a", "b", "c", "d", "e", "f", "g", "h", "i", "j", "k", "l", "m",
      "n", "o", "p", "q", "r", "s", "t", "u", "v", "w", "x", "y", "z">>

\* The lower-case letter of each upper-case letter.
ToLower ==
    [c \in {UpperCase[k] : k \in 1..Len(UpperCase)} |->
        LowerCase[CHOOSE k \in 1..Len(UpperCase) : UpperCase[k] = c]]

\* str.lower(), one character at a time.
LowerChar(c) == IF c \in DOMAIN ToLower THEN ToLower[c] ELSE c

Lower(s) == [k \in 1..Len(s) |-> LowerChar(s[k])]

NoException == [type |-> "None", msg |-> "None"]

ValueError(msg) == [type |-> "ValueError", msg |-> msg]

\* An exception raised by the driver or by the partitioner.
LibraryError(op) == [type |-> "Exception", msg |-> op]

NoDriver ==
    [browser |-> "None", arguments |-> <<>>, executable_path |-> None,
     alive |-> FALSE]

NoLoader ==
    [urls |-> <<>>, continue_on_failure |-> TRUE, browser |-> <<>>,
     executable_path |-> None, headless |-> TRUE]

-----------------------------------------------------------------------------
(* The external HTML partitioner: a fixed function of the page source.     *)
(* Each element carries a category and its text; "<<<" makes it raise.     *)

PartitionRaises(html) == html = "<<<"

partition_html(html) ==
    CASE html = "<p>Hi</p>" ->
            << [category |-> "NarrativeText", text |-> <<"H", "i">>] >>
      [] html = "<h1>A</h1><p></p><p>b</p>" ->
            << [category |-> "Title", text |-> <<"A">>],
               [category |-> "Text", text |-> <<>>],
               [category |-> "NarrativeText", text |-> <<"b">>] >>
      [] OTHER -> <<>>

\* str(el) of an unstructured element is its text.
Str(el) == el.text

Separator == <<"\n", "\n">>

\* sep.join(strs): the items in order, sep between consecutive items.
RECURSIVE JoinFrom(_, _, _, _)
JoinFrom(sep, strs, k, acc) ==
    IF k > Len(strs) THEN acc
    ELSE JoinFrom(sep, strs, k + 1, acc \o sep \o strs[k])

\* Faulty variant: a separator after every item, the last one included.
JoinTrailing(sep, strs) ==
    IF Len(strs) = 0 THEN <<>>
    ELSE JoinFrom(<<>>, [k \in 1..Len(strs) |-> strs[k] \o sep], 2, strs[1] \o sep)

Join(sep, strs) ==
    IF Len(strs) = 0 THEN <<>>
    ELSE JoinFrom(sep, strs, 2, strs[1])

Metadata(url) == [source |-> url]

Document(text, metadata) == [page_content |-> text, metadata |-> metadata]

-----------------------------------------------------------------------------
(* Init: an interpreter with or without the optional packages, no loader.  *)

Init ==
    /\ seleniumInstalled \in BOOLEAN
    /\ unstructuredInstalled \in BOOLEAN
    /\ pc = "new"
    /\ self = NoLoader
    /\ driver = NoDriver
    /\ i = 0
    /\ page_content = None
    /\ elements = <<>>
    /\ docs = <<>>
    /\ result = <<>>
    /\ raised = NoException
    /\ logged = <<>>
    /\ loads = 0
    /\ launches = 0
    /\ quits = 0
    /\ live = 0
    /\ navigated = <<>>
    /\ failed = {}
    /\ produced = <<>>

-----------------------------------------------------------------------------
(* __init__ *)

MissingSelenium == ValueError("selenium package not found")

MissingUnstructured == ValueError("unstructured package not found")

InvalidBrowser == ValueError("Invalid browser specified")

\* Faulty variant: the constructor also validates the browser.
InitErrorValidating(urls, continue_on_failure, browser, executable_path, headless) ==
    IF ~seleniumInstalled THEN MissingSelenium
    ELSE IF ~unstructuredInstalled THEN MissingUnstructured
    ELSE IF Lower(browser) # chrome /\ Lower(browser) # firefox THEN InvalidBrowser
    ELSE NoException

\* The exception __init__ raises for these arguments, or NoException.
InitError(urls, continue_on_failure, browser, executable_path, headless) ==
    IF ~seleniumInstalled THEN MissingSelenium
    ELSE IF ~unstructuredInstalled THEN MissingUnstructured
    ELSE NoException

Construct ==
    /\ pc = "new"
    /\ \E urls \in UrlLists, continue_on_failure \in BOOLEAN, browser \in Browsers,
          executable_path \in ExecutablePaths, headless \in BOOLEAN :
          LET e == InitError(urls, continue_on_failure, browser,
                             executable_path, headless)
          IN  IF e # NoException
              THEN /\ raised' = e
                   /\ pc' = "ctor_raised"
                   /\ self' = self
              ELSE /\ self' = [urls |-> urls,
                               continue_on_failure |-> continue_on_failure,
                               browser |-> browser,
                               executable_path |-> executable_path,
                               headless |-> headless]
                   /\ pc' = "idle"
                   /\ raised' = raised
    /\ UNCHANGED <<seleniumInstalled, unstructuredInstalled, driver, i,
                   page_content, elements, docs, result, logged, loads,
                   launches, quits, live, navigated, failed, produced>>

-----------------------------------------------------------------------------
(* _get_driver *)

\* Faulty variant: the last branch is taken as the default instead of raising.
BrowserKindDefault(browser) ==
    IF Lower(browser) = chrome THEN "Chrome" ELSE "Firefox"

\* Which branch of _get_driver the browser string selects.
BrowserKind(browser) ==
    IF Lower(browser) = chrome THEN "Chrome"
    ELSE IF Lower(browser) = firefox THEN "Firefox"
    ELSE "Invalid"

\* The WebDriver the Chrome / Firefox branch constructs.
get_driver(loader) ==
    [browser |-> BrowserKind(loader.browser),
     arguments |-> IF loader.headless THEN <<"--headless">> ELSE <<>>,
     executable_path |-> loader.executable_path,
     alive |-> TRUE]

-----------------------------------------------------------------------------
(* load *)

Url == self.urls[i]

\* Entry of load() up to the for loop: docs = list(); driver = self._get_driver().
Load ==
    /\ pc \in {"idle", "returned", "raised"}
    /\ loads < MaxLoads
    /\ loads' = loads + 1
    /\ docs' = <<>>
    /\ page_content' = None
    /\ elements' = <<>>
    /\ result' = <<>>
    /\ logged' = <<>>
    /\ quits' = 0
    /\ navigated' = <<>>
    /\ failed' = {}
    /\ produced' = <<>>
    /\ IF BrowserKind(self.browser) = "Invalid"
       THEN /\ raised' = InvalidBrowser
            /\ pc' = "raised"
            /\ driver' = NoDriver
            /\ i' = 0
            /\ launches' = 0
            /\ live' = live
       ELSE /\ driver' = get_driver(self)
            /\ launches' = 1
            /\ live' = live + 1
            /\ raised' = NoException
            /\ i' = 1
            /\ pc' = "for"
    /\ UNCHANGED <<seleniumInstalled, unstructuredInstalled, self>>

\* Faulty variant: the except block ignores continue_on_failure and goes on.
OnExceptionAlwaysContinue(e) ==
    /\ failed' = failed \cup {i}
    /\ logged' = Append(logged, Url)
    /\ i' = i + 1
    /\ pc' = "for"
    /\ raised' = raised
    /\ UNCHANGED <<docs, produced, result>>

\* Faulty variant: a URL that failed after navigation leaves an empty Document.
OnExceptionPartial(e) ==
    /\ failed' = failed \cup {i}
    /\ IF self.continue_on_failure
       THEN /\ logged' = Append(logged, Url)
            /\ i' = i + 1
            /\ pc' = "for"
            /\ raised' = raised
       ELSE /\ raised' = e
            /\ pc' = "raised"
            /\ UNCHANGED <<i, logged>>
    /\ docs' = IF pc = "for" THEN docs
               ELSE Append(docs, [page_content |-> <<>>, metadata |-> [source |-> Url]])
    /\ UNCHANGED <<produced, result>>

\* Faulty variant: a failed URL is tried again instead of being skipped.
OnExceptionRetry(e) ==
    /\ failed' = failed \cup {i}
    /\ IF self.continue_on_failure
       THEN /\ logged' = Append(logged, Url)
            /\ pc' = "for"
            /\ UNCHANGED <<i, raised>>
       ELSE /\ raised' = e
            /\ pc' = "raised"
            /\ UNCHANGED <<i, logged>>
    /\ UNCHANGED <<docs, produced, result>>

\* The except block: log and go on to the next URL, or re-raise.
OnException(e) ==
    /\ failed' = failed \cup {i}
    /\ IF self.continue_on_failure
       THEN /\ logged' = Append(logged, Url)
            /\ i' = i + 1
            /\ pc' = "for"
            /\ raised' = raised
       ELSE /\ raised' = e
            /\ pc' = "raised"
            /\ UNCHANGED <<i, logged>>
    /\ UNCHANGED <<docs, produced, result>>

\* driver.get(url) returns.
DriverGet ==
    /\ pc = "for"
    /\ i <= Len(self.urls)
    /\ navigated' = Append(navigated, i)
    /\ pc' = "get_done"
    /\ UNCHANGED <<seleniumInstalled, unstructuredInstalled, self, driver, i,
                   page_content, elements, docs, result, raised, logged, loads,
                   launches, quits, live, failed, produced>>

\* driver.get(url) raises.
DriverGetRaises ==
    /\ pc = "for"
    /\ i <= Len(self.urls)
    /\ navigated' = Append(navigated, i)
    /\ OnException(LibraryError("get"))
    /\ UNCHANGED <<seleniumInstalled, unstructuredInstalled, self, driver,
                   page_content, elements, loads, launches, quits, live>>

\* page_content = driver.page_source returns some rendered source.
PageSource ==
    /\ pc = "get_done"
    /\ \E html \in Pages : page_content' = html
    /\ pc' = "source_done"
    /\ UNCHANGED <<seleniumInstalled, unstructuredInstalled, self, driver, i,
                   elements, docs, result, raised, logged, loads, launches,
                   quits, live, navigated, failed, produced>>

\* driver.page_source raises.
PageSourceRaises ==
    /\ pc = "get_done"
    /\ OnException(LibraryError("page_source"))
    /\ UNCHANGED <<seleniumInstalled, unstructuredInstalled, self, driver,
                   page_content, elements, loads, launches, quits, live,
                   navigated>>

\* elements = partition_html(text=page_content) returns.
PartitionHtml ==
    /\ pc = "source_done"
    /\ ~PartitionRaises(page_content)
    /\ elements' = partition_html(page_content)
    /\ pc' = "partition_done"
    /\ UNCHANGED <<seleniumInstalled, unstructuredInstalled, self, driver, i,
                   page_content, docs, result, raised, logged, loads, launches,
                   quits, live, navigated, failed, produced>>

\* partition_html(text=page_content) raises.
PartitionHtmlRaises ==
    /\ pc = "source_done"
    /\ PartitionRaises(page_content)
    /\ OnException(LibraryError("partition_html"))
    /\ UNCHANGED <<seleniumInstalled, unstructuredInstalled, self, driver,
                   page_content, elements, loads, launches, quits, live,
                   navigated>>

\* text = "\n\n".join([str(el) for el in elements])
Text(els) == Join(Separator, [k \in 1..Len(els) |-> Str(els[k])])

\* Faulty variant: the new Document is inserted at the front of docs.
AssemblePrepend ==
    /\ pc = "partition_done"
    /\ docs' = <<Document(Text(elements), Metadata(Url))>> \o docs
    /\ produced' = <<[pos |-> i, source |-> page_content]>> \o produced
    /\ i' = i + 1
    /\ pc' = "for"
    /\ UNCHANGED <<seleniumInstalled, unstructuredInstalled, self, driver,
                   page_content, elements, result, raised, logged, loads,
                   launches, quits, live, navigated, failed>>

\* Faulty variant: the source is the URL at the index of the new Document.
AssembleByCount ==
    /\ pc = "partition_done"
    /\ docs' = Append(docs, Document(Text(elements),
                                     Metadata(self.urls[Len(docs) + 1])))
    /\ produced' = Append(produced, [pos |-> i, source |-> page_content])
    /\ i' = i + 1
    /\ pc' = "for"
    /\ UNCHANGED <<seleniumInstalled, unstructuredInstalled, self, driver,
                   page_content, elements, result, raised, logged, loads,
                   launches, quits, live, navigated, failed>>

\* The join, the metadata and docs.append(Document(...)); then the next URL.
Assemble ==
    /\ pc = "partition_done"
    /\ docs' = Append(docs, Document(Text(elements), Metadata(Url)))
    /\ produced' = Append(produced, [pos |-> i, source |-> page_content])
    /\ i' = i + 1
    /\ pc' = "for"
    /\ UNCHANGED <<seleniumInstalled, unstructuredInstalled, self, driver,
                   page_content, elements, result, raised, logged, loads,
                   launches, quits, live, navigated, failed>>

\* Faulty variant: docs is returned without driver.quit().
ReturnWithoutQuit ==
    /\ pc = "for"
    /\ i > Len(self.urls)
    /\ result' = docs
    /\ pc' = "returned"
    /\ UNCHANGED <<seleniumInstalled, unstructuredInstalled, self, driver, i,
                   page_content, elements, docs, raised, logged, loads,
                   launches, quits, live, navigated, failed, produced>>

\* The loop is exhausted: driver.quit(); return docs.
Return ==
    /\ pc = "for"
    /\ i > Len(self.urls)
    /\ driver' = [driver EXCEPT !.alive = FALSE]
    /\ quits' = quits + 1
    /\ live' = live - 1
    /\ result' = docs
    /\ pc' = "returned"
    /\ UNCHANGED <<seleniumInstalled, unstructuredInstalled, self, i,
                   page_content, elements, docs, raised, logged, loads,
                   launches, navigated, failed, produced>>

Next ==
    \/ Construct
    \/ Load
    \/ DriverGet
    \/ DriverGetRaises
    \/ PageSource
    \/ PageSourceRaises
    \/ PartitionHtml
    \/ PartitionHtmlRaises
    \/ Assemble
    \/ Return

Spec == Init /\ [][Next]_vars

-----------------------------------------------------------------------------
(* Vocabulary of the properties. *)

InLoop == pc \in {"for", "get_done", "source_done", "partition_done"}

\* The browser string names neither chrome nor firefox, in any letter case.
Unsupported(browser) == Lower(browser) # chrome /\ Lower(browser) # firefox

Positions == [k \in 1..Len(self.urls) |-> k]

NotFailed(j) == j \notin failed

\* The positions of the input list whose iteration did not raise, in order.
Succeeding == SelectSeq(Positions, NotFailed)

Sources(ds) == [k \in 1..Len(ds) |-> ds[k].metadata.source]

RECURSIVE SumLen(_, _)
SumLen(strs, n) == IF n = 0 THEN 0 ELSE SumLen(strs, n - 1) + Len(strs[n])

\* Where the k-th item starts in a text that puts two characters between items.
Offset(strs, k) == SumLen(strs, k - 1) + 2 * (k - 1)

\* text is the items of strs in order with "\n\n" between neighbours only.
IsBlankLineJoin(text, strs) ==
    LET n == Len(strs)
    IN  /\ Len(text) = IF n = 0 THEN 0 ELSE SumLen(strs, n) + 2 * (n - 1)
        /\ \A k \in 1..n :
              /\ SubSeq(text, Offset(strs, k) + 1, Offset(strs, k) + Len(strs[k]))
                    = strs[k]
              /\ k < n =>
                    /\ text[Offset(strs, k) + Len(strs[k]) + 1] = "\n"
                    /\ text[Offset(strs, k) + Len(strs[k]) + 2] = "\n"

-----------------------------------------------------------------------------
(* Properties. *)

\* C1: every load() invocation that launched a session (supported browser)
\* has closed it exactly once when it ends, whether it returns or raises.
C1_ClosedOnEveryExit ==
    /\ quits <= 1
    /\ (pc \in {"returned", "raised"} /\ ~Unsupported(self.browser)) => quits = 1

\* C2: with continue_on_failure true, load() returns one Document per URL
\* position that did not fail, N - M of them, in input order, and no failure
\* of a URL leaves load() as an exception.
C2_ContinueSkipsFailures ==
    self.continue_on_failure =>
        /\ pc = "raised" => raised = InvalidBrowser
        /\ pc = "returned" =>
              /\ Len(result) = Len(self.urls) - Cardinality(failed)
              /\ Len(Succeeding) = Len(result)
              /\ \A k \in 1..Len(result) :
                    result[k].metadata.source = self.urls[Succeeding[k]]

\* The example of the specification: [a, bad, b], bad fails, a then b returned.
C2_Witness ==
    /\ pc = "returned"
    /\ self.continue_on_failure
    /\ self.urls = <<"https://a.test", "https://bad.test", "https://b.test">>
    /\ failed = {2}
    /\ Sources(result) = <<"https://a.test", "https://b.test">>

\* C3: with continue_on_failure false, the first failing URL ends the batch:
\* the failure leaves load(), nothing is returned, and no later position is
\* navigated to.
C3_AbortOnFirstFailure ==
    (~self.continue_on_failure /\ failed # {}) =>
        /\ pc = "raised"
        /\ raised.type = "Exception"
        /\ raised.msg \in {"get", "page_source", "partition_html"}
        /\ result = <<>>
        /\ failed = {i}
        /\ navigated = [k \in 1..i |-> k]

C3_Witness ==
    /\ pc = "raised"
    /\ ~self.continue_on_failure
    /\ Len(self.urls) = 3
    /\ failed = {2}
    /\ Len(docs) = 1

\* C4: once load() has been called with an unsupported browser it has raised
\* the invalid-browser ValueError, and no session was launched, no URL was
\* navigated to and no Document exists.
C4_UnsupportedBrowserRaises ==
    (loads > 0 /\ Unsupported(self.browser)) =>
        /\ pc = "raised"
        /\ raised = InvalidBrowser
        /\ launches = 0
        /\ live = 0
        /\ driver = NoDriver
        /\ navigated = <<>>
        /\ docs = <<>>
        /\ result = <<>>

C4_Witness ==
    /\ pc = "raised"
    /\ loads = 1
    /\ self.browser = <<"s", "a", "f", "a", "r", "i">>
    /\ Len(self.urls) = 3

\* C5 as stated: no constructed loader has an unsupported browser.
C5_RejectedAtConstruction ==
    pc \notin {"new", "ctor_raised"} => ~Unsupported(self.browser)

\* C5 amended: the constructor does not look at the browser.  It fails only
\* when selenium or unstructured is missing; an unsupported browser is
\* rejected by _get_driver, and therefore only once load() has been called.
C5_RejectedAtLoad ==
    /\ pc = "ctor_raised" =>
          /\ ~(seleniumInstalled /\ unstructuredInstalled)
          /\ raised \in {MissingSelenium, MissingUnstructured}
    /\ raised = InvalidBrowser => (pc = "raised" /\ loads >= 1)
    /\ (pc = "idle" /\ Unsupported(self.browser)) => raised = NoException

C5_Witness ==
    /\ pc = "idle"
    /\ Unsupported(self.browser)
    /\ self.browser # <<>>

\* C6: the k-th Document has metadata exactly {source: u}, u being the URL
\* of the position whose iteration produced it, and that position is the
\* k-th position that did not fail.
C6_SourceIsFetchedUrl ==
    /\ Len(produced) = Len(docs)
    /\ \A k \in 1..Len(docs) :
          /\ docs[k].metadata = [source |-> self.urls[produced[k].pos]]
          /\ produced[k].pos = Succeeding[k]
    /\ pc = "returned" => result = docs

C6_Witness ==
    /\ pc = "returned"
    /\ failed = {1}
    /\ Sources(result) = <<"https://b.test", "https://a.test">>
    /\ self.urls = <<"https://a.test", "https://b.test", "https://a.test">>

\* C7: at every point of load(), docs holds exactly one Document for each
\* position whose whole iteration has completed, and none for a position
\* that failed or is still being processed.
C7_NoPartialDocument ==
    /\ Len(docs) = Cardinality({j \in 1..Len(self.urls) : j < i /\ j \notin failed})
    /\ \A k \in 1..Len(produced) :
          /\ produced[k].pos \notin failed
          /\ produced[k].pos < i
    /\ Len(result) <= Len(docs)

\* A URL fails in extraction, after navigation and source read succeeded.
C7_Witness ==
    /\ pc = "for"
    /\ i = 3
    /\ failed = {2}
    /\ page_content = "<<<"
    /\ Len(docs) = 1

\* C8: an invocation launches one session and keeps it for the whole loop;
\* positions are navigated in input order, each at most once, and all of
\* them exactly once when load() returns.
C8_OneSessionInOrder ==
    /\ launches <= 1
    /\ InLoop => (launches = 1 /\ driver = get_driver(self))
    /\ navigated = [k \in 1..Len(navigated) |-> k]
    /\ Len(navigated) <= Len(self.urls)
    /\ (self.continue_on_failure /\ pc = "returned") =>
          navigated = Positions

C8_Witness ==
    /\ pc = "returned"
    /\ self.continue_on_failure
    /\ navigated = <<1, 2, 3>>
    /\ failed = {1, 3}
    /\ self.urls[1] = self.urls[3]

\* C9: while the loop runs the session is open and has never been closed;
\* when load() returns the session has been closed exactly once.
C9_CloseAfterLoop ==
    /\ InLoop => (driver.alive /\ quits = 0)
    /\ pc = "returned" =>
          /\ quits = 1
          /\ ~driver.alive
          /\ i = Len(self.urls) + 1

C9_Witness ==
    /\ pc = "returned"
    /\ failed = {2}
    /\ Len(result) = 1
    /\ quits = 1

\* C10: each Document's page_content is the texts of the elements the
\* partitioner gives for that page source, in order, with "\n\n" between
\* neighbours and nothing at either end; no elements give the empty text.
C10_BlankLineJoin ==
    \A k \in 1..Len(docs) :
        LET els == partition_html(produced[k].source)
        IN  IsBlankLineJoin(docs[k].page_content,
                            [j \in 1..Len(els) |-> els[j].text])

C10_Witness ==
    /\ Len(docs) = 2
    /\ produced[1].source = "<h1>A</h1><p></p><p>b</p>"
    /\ docs[1].page_content = <<"A", "\n", "\n", "\n", "\n", "b">>
    /\ produced[2].source = "<html></html>"
    /\ docs[2].page_content = <<>>

====
